---- MODULE Spec2Model ----
(***************************************************************************)
(* A model of the HTTP service bootstrap layer of js-node-express-server   *)
(* (src/src/index.ts): the App class, its middleware pipeline, the         *)
(* reloadable dynamic router, the readiness flag and the error chain.      *)
(*                                                                         *)
(* The Express application is modelled by what it is: an ordered stack of  *)
(* layers (app.use / app.get append to it), walked per request by next().  *)
(* next(err) skips to the next error-handling layer (arity 4), next()      *)
(* skips the error-handling layers.  One step of a request runs one layer. *)
(***************************************************************************)
EXTENDS Integers, Sequences, FiniteSets, TLC

VARIABLES
  appConfig,       \* the argument given to the constructor (ghost)
  ctor,            \* "none" | "ok" | "failed": outcome of new App(appConfig)
  config,          \* this.config
  stack,           \* this.app's layer stack, in registration order
  readyState,      \* this.readyState
  dynamicRouter,   \* this.dynamicRouter: 0 = undefined, else index into routers
  routers,         \* heap of express.Router objects built by reloadDynamicRouter
  initCalls,       \* number of init() calls so far (ghost)
  shutdownCalled,  \* shutdown() was called at least once (ghost)
  phase,           \* "created", then "initialised" from each init() that
                   \* returns and "shutdown" from each shutdown() (ghost)
  req,             \* the requests: ReqIds -> request record
  codec            \* one run of the envelope codec: a payload encrypted and
                   \* the ciphertext decrypted again

vars == <<appConfig, ctor, config, stack, readyState, dynamicRouter, routers,
          initCalls, shutdownCalled, phase, req, codec>>

-----------------------------------------------------------------------------
(* Bounds *)

\* Router objects built over the life of one instance (each init() and each
\* reloadDynamicRouter() builds one).
MaxVersions == 2

\* The request slots: a slot takes the next request when its request is
\* done.  Solo is the slot used where one request is in flight at a time.
ReqIds == {1, 2}

Solo == {1}

-----------------------------------------------------------------------------
(* Constants of the program *)

ENV_DEV  == "development"
ENV_TEST == "test"
ENV_PROD == "production"
Envs == {ENV_DEV, ENV_TEST, ENV_PROD}

HEALTH_CHECK == "/health-check"
READY_CHECK  == "/ready-check"
SWAGGER_UI   == "/api-docs"
ROOT         == "/"
TEST_ROUTE   == "/test"               \* a path the caller's router serves
INVALID      == "/invalid/resource"   \* a path nothing serves

OK                  == 200
BAD_REQUEST         == 400
NOT_FOUND           == 404
SERVICE_UNAVAILABLE == 503

GenericMessage == "An unexpected error has occurred"

-----------------------------------------------------------------------------
(* Config *)

\* shouldCheckOpenApiBaseSchema is an optional boolean: "undefined" when absent.
OptBool == {"undefined", "true", "false"}

Config(base, spec, check, env, key, custom) ==
  [openapiBaseSchema            |-> base,     \* a path is given
   openapiSpec                  |-> spec,     \* an in-memory schema is given
   shouldCheckOpenApiBaseSchema |-> check,
   env                          |-> env,
   encryptionKey                |-> key,      \* a key is given
   customBodyParser             |-> custom]   \* a hook is given

AllConfigs ==
  { Config(b, s, c, e, k, p) :
      b \in BOOLEAN, s \in BOOLEAN, c \in OptBool, e \in Envs,
      k \in BOOLEAN, p \in BOOLEAN }

NoConfig == Config(FALSE, FALSE, "undefined", "none", FALSE, FALSE)

-----------------------------------------------------------------------------
(* Values.  A JavaScript value as the codec and the envelope stages see it: *)
(* t is its kind, s the text of an atom, items the elements of an array or  *)
(* the members of an object.  A ciphertext is a string whose content is     *)
(* kept as the key (s) and the plaintext (items) it was made from.          *)

Val(t, s, items) == [t |-> t, s |-> s, items |-> items]

Undefined == Val("undefined", "", <<>>)
Null      == Val("null", "null", <<>>)
Bool(b)   == Val("bool", IF b THEN "true" ELSE "false", <<>>)
Num(s)    == Val("num", s, <<>>)
Str(s)    == Val("str", s, <<>>)
Arr(vs)   == Val("arr", "", vs)

\* An object: its members in insertion order.
Member(key, val) == [key |-> key, val |-> val]
ObjV(ms) == Val("obj", "", ms)

\* Truthiness, as `x && ...` and `x || 0` test it.
Truthy(v) ==
  CASE v.t \in {"undefined", "null"} -> FALSE
    [] v.t = "bool" -> v.s = "true"
    [] v.t = "num"  -> v.s \notin {"0", "NaN"}
    [] v.t = "str"  -> v.s # ""
    [] OTHER        -> TRUE   \* arrays, objects, ciphertexts and other text

\* typeof v === 'object' (null included)
TypeofObject(v) == v.t \in {"null", "arr", "obj"}

\* v.name: undefined when v is not an object with that member.  (Reading a
\* member of null or undefined throws; the caller tests for that.)
HasMember(v, name) ==
  v.t = "obj" /\ \E n \in 1..Len(v.items) : v.items[n].key = name

Field(v, name) ==
  IF HasMember(v, name)
    THEN v.items[CHOOSE n \in 1..Len(v.items) : v.items[n].key = name].val
    ELSE Undefined

-----------------------------------------------------------------------------
(* The envelope codec: src/src/encryptData.ts and decryptData               *)

\* A punctuation token of JSON text; an atom's token is the atom.
Punct(s) == Val("p", s, <<>>)

RECURSIVE Stringify(_)
RECURSIVE StringifyElems(_)
RECURSIVE StringifyMembers(_)

\* JSON.stringify(v) as a token sequence.  NaN is written null; an array
\* element that is undefined is written null; an object member that is
\* undefined is left out.
Stringify(v) ==
  CASE v.t = "arr" -> <<Punct("[")>> \o StringifyElems(v.items) \o <<Punct("]")>>
    [] v.t = "obj" ->
         <<Punct("{")>>
           \o StringifyMembers(SelectSeq(v.items, LAMBDA m : m.val.t # "undefined"))
           \o <<Punct("}")>>
    [] v.t = "undefined" -> <<>>
    [] v.t = "num" /\ v.s = "NaN" -> <<Null>>
    [] OTHER -> <<v>>

StringifyElems(vs) ==
  IF vs = <<>> THEN <<>>
  ELSE (IF Head(vs).t = "undefined" THEN <<Null>> ELSE Stringify(Head(vs)))
         \o (IF Len(vs) > 1 THEN <<Punct(",")>> ELSE <<>>)
         \o StringifyElems(Tail(vs))

StringifyMembers(ms) ==
  IF ms = <<>> THEN <<>>
  ELSE <<Str(Head(ms).key), Punct(":")>> \o Stringify(Head(ms).val)
         \o (IF Len(ms) > 1 THEN <<Punct(",")>> ELSE <<>>)
         \o StringifyMembers(Tail(ms))

\* The result of parsing a prefix of a token sequence.
Parsed(ok, val, rest) == [ok |-> ok, val |-> val, rest |-> rest]

ParseFailed == Parsed(FALSE, Undefined, <<>>)

IsPunct(ts, s) == ts # <<>> /\ Head(ts) = Punct(s)

RECURSIVE ParseValue(_)
RECURSIVE ParseElems(_, _)
RECURSIVE ParseMembers(_, _)

ParseValue(ts) ==
  IF ts = <<>> THEN ParseFailed
  ELSE CASE Head(ts).t \in {"null", "bool", "num", "str", "cipher"} ->
              Parsed(TRUE, Head(ts), Tail(ts))
         [] IsPunct(ts, "[") ->
              IF IsPunct(Tail(ts), "]")
                THEN Parsed(TRUE, Arr(<<>>), Tail(Tail(ts)))
                ELSE ParseElems(Tail(ts), <<>>)
         [] IsPunct(ts, "{") ->
              IF IsPunct(Tail(ts), "}")
                THEN Parsed(TRUE, ObjV(<<>>), Tail(Tail(ts)))
                ELSE ParseMembers(Tail(ts), <<>>)
         [] OTHER -> ParseFailed

\* The elements of an array after "[" or ",".
ParseElems(ts, acc) ==
  LET e == ParseValue(ts)
  IN  IF ~e.ok THEN ParseFailed
      ELSE IF IsPunct(e.rest, ",")
        THEN ParseElems(Tail(e.rest), Append(acc, e.val))
      ELSE IF IsPunct(e.rest, "]")
        THEN Parsed(TRUE, Arr(Append(acc, e.val)), Tail(e.rest))
      ELSE ParseFailed

\* The members of an object after "{" or ",".
ParseMembers(ts, acc) ==
  IF ~(Len(ts) >= 2 /\ ts[1].t = "str" /\ ts[2] = Punct(":"))
    THEN ParseFailed
    ELSE LET e == ParseValue(Tail(Tail(ts)))
             ms == Append(acc, Member(ts[1].s, e.val))
         IN  IF ~e.ok THEN ParseFailed
             ELSE IF IsPunct(e.rest, ",") THEN ParseMembers(Tail(e.rest), ms)
             ELSE IF IsPunct(e.rest, "}")
               THEN Parsed(TRUE, ObjV(ms), Tail(e.rest))
             ELSE ParseFailed

\* JSON.parse(text): fails unless the whole text is one value.
JsonParse(ts) ==
  LET p == ParseValue(ts)
  IN  IF p.ok /\ p.rest = <<>> THEN p ELSE ParseFailed

\* CryptoJS.AES.encrypt(text, key).toString(): an opaque string from which
\* only the same key gives the text back.
AesEncrypt(text, key) == Val("cipher", key, text)

\* What the cipher does with an input it cannot decrypt (another key, or a
\* string that is no ciphertext of it): bytes.toString(Utf8) throws on
\* malformed UTF-8, or gives the empty string, or gives some other text.
Garbage == <<Punct("?")>>

CipherOutcomes == {"throws", "empty", "garbage"}

\* CryptoJS.AES.decrypt(c, key) followed by toString(Utf8) (lines 6-8 of
\* decryptData): threw, or the text.  `how` is the cipher's behaviour when it
\* cannot decrypt.
AesDecrypt(c, key, how) ==
  IF c.t = "cipher" /\ c.s = key
    THEN [threw |-> FALSE, text |-> c.items]
    ELSE CASE how = "throws" -> [threw |-> TRUE,  text |-> <<>>]
           [] how = "empty"  -> [threw |-> FALSE, text |-> <<>>]
           [] OTHER          -> [threw |-> FALSE, text |-> Garbage]

\* encryptData.ts, lines 3-5.
encryptData(data, encryptionKey) == AesEncrypt(Stringify(data), encryptionKey)

\* The decrypted text as a string value (line 13).
RawText(text) == IF text = <<>> THEN Str("") ELSE Val("text", "", text)

\* One run of the codec: payload P encrypted with key K gave ciphertext c,
\* which decryptData was given with key K2 and answered with out.
CodecRun(st, P, K, c, K2, out) ==
  [st |-> st, P |-> P, K |-> K, c |-> c, K2 |-> K2, out |-> out]

IdleCodec == CodecRun("idle", Undefined, "", Undefined, "", Undefined)

\* A decryptData that hands back the decrypted text without parsing it.
decryptDataUnparsed(encryptedData, encryptionKey, how) ==
  LET d == AesDecrypt(encryptedData, encryptionKey, how)
  IN  IF d.threw THEN Null ELSE RawText(d.text)

\* decryptData, lines 3-19: null when decrypting threw, the parsed value
\* when the text parses, the text itself otherwise.
decryptData(encryptedData, encryptionKey, how) ==
  LET d == AesDecrypt(encryptedData, encryptionKey, how)
      p == JsonParse(d.text)
  IN  IF d.threw THEN Null
      ELSE IF p.ok THEN p.val
      ELSE RawText(d.text)

-----------------------------------------------------------------------------
(* Layers *)

ErrorLayers == {"openApiErrorTranslation", "errorTranslation", "errorHandler"}

\* What the constructor registers after CORS.
BodyParsers(cfg) ==
  IF ~cfg.customBodyParser
    THEN <<"urlencoded", "json", "cookieParser">>
    ELSE <<"customBodyParser">>

\* A layer of a dynamic router; src is the schema it was built from.
RLayer(kind, src) == [k |-> kind, src |-> src]

\* A Router object: the schema source it was built for and its layers.
Router(src, layers) == [src |-> src, layers |-> layers]

-----------------------------------------------------------------------------
(* The constructor, lines 57-81 *)

\* A default that overrides an explicit false (`x || true`).
ShouldCheckAlways(cfg) == TRUE

\* Lines 58-59: only an explicit false disables the check.
ShouldCheck(cfg) ==
  IF cfg.shouldCheckOpenApiBaseSchema = "false" THEN FALSE ELSE TRUE

\* Lines 60-62: the constructor throws.
ConstructorThrows(cfg) ==
  ShouldCheck(cfg) /\ ~cfg.openapiBaseSchema /\ ~cfg.openapiSpec

\* Lines 66-80: the layers the constructor registers.
ConstructorStack(cfg) == <<"cors">> \o BodyParsers(cfg)

Construct(cfg) ==
  /\ ctor = "none"
  /\ appConfig' = cfg
  /\ IF ConstructorThrows(cfg)
       THEN /\ ctor' = "failed"
            /\ UNCHANGED <<config, stack>>
       ELSE /\ ctor' = "ok"
            /\ config' = cfg
            /\ stack' = ConstructorStack(cfg)
  /\ UNCHANGED <<readyState, dynamicRouter, routers, initCalls,
                 shutdownCalled, phase, req, codec>>

-----------------------------------------------------------------------------
(* reloadDynamicRouter, initSwaggerUI, initOpenApiValidation: lines 168-206 *)

\* Which schema a router is built from: the argument when given, else the
\* configured document path (lines 172, 185, 196).
SchemaSource(cfg, openApiSpec) ==
  IF openApiSpec THEN "mem"
  ELSE IF cfg.openapiBaseSchema THEN "file"
  ELSE "none"

\* Line 185: YAML.load runs only when no in-memory schema is given.
NeedsLoad(cfg, openApiSpec) == SchemaSource(cfg, openApiSpec) = "file"

\* Lines 182-186: the docs endpoint is appended to the router.
initSwaggerUI(router) ==
  Router(router.src, Append(router.layers, RLayer("swaggerUI", router.src)))

\* Lines 194-205: a validation middleware is appended to the router.
initOpenApiValidation(router, src) ==
  Router(router.src, Append(router.layers, RLayer("validator", src)))

\* Lines 168-176.  `loadable` is whether YAML.load of the configured document
\* succeeds when it runs.  The new Router is assigned to this.dynamicRouter at
\* line 170, before it is filled: when YAML.load throws, the empty router stays.
reloadDynamicRouter(cfg, openApiSpec, loadable) ==
  LET src   == SchemaSource(cfg, openApiSpec)
      fresh == Router(src, <<>>)
  IN  IF src = "none"
        THEN [threw |-> FALSE, router |-> fresh]
      ELSE IF NeedsLoad(cfg, openApiSpec) /\ ~loadable
        THEN [threw |-> TRUE, router |-> fresh]
      ELSE [threw |-> FALSE,
            router |-> initOpenApiValidation(initSwaggerUI(fresh), src)]

Reload(openApiSpec, loadable) ==
  /\ ctor = "ok"
  /\ Len(routers) < MaxVersions
  /\ LET r == reloadDynamicRouter(config, openApiSpec, loadable)
     IN  /\ routers' = Append(routers, r.router)
         /\ dynamicRouter' = Len(routers) + 1
  /\ UNCHANGED <<appConfig, ctor, config, stack, readyState, initCalls,
                 shutdownCalled, phase, req, codec>>

-----------------------------------------------------------------------------
(* init, lines 83-106 *)

\* An init() that registers the decryption stage before logging.
InitHeadDecoderFirst ==
  <<"decoder", "logger", "helmet", "frameguard", "health", "ready", "root">>

\* Lines 85-88: initLogging, initSecurity, initHealth, decoder.
InitHead ==
  <<"logger", "helmet", "frameguard", "health", "ready", "root", "decoder">>

\* Lines 91-100: registerDynamicRouter, modifyResponseBody, initRoutes,
\* initErrorTranslation, initErrorHandling.
InitTail ==
  <<"dispatch", "modifyResponseBody", "router", "notFound",
    "openApiErrorTranslation", "errorTranslation", "errorHandler">>

\* A flag raised before assembly has finished.
ReadyBeforeAssembly(threw, old) == TRUE

\* Line 103 is reached only when nothing before it threw.
ReadyAfterInit(threw, old) == IF threw THEN old ELSE TRUE

\* Lines 93-95: init appends a validation middleware to the router that
\* reloadDynamicRouter has just built.
InitRouter(cfg, router) ==
  IF cfg.openapiSpec \/ cfg.openapiBaseSchema
    THEN initOpenApiValidation(router, SchemaSource(cfg, cfg.openapiSpec))
    ELSE router

\* An init() that registers its stages without building a Router first.
InitAppWithoutRouter(loadable) ==
  /\ ctor = "ok"
  /\ Len(routers) < MaxVersions
  /\ stack' = stack \o InitHead \o InitTail
  /\ readyState' = TRUE
  /\ phase' = "initialised"
  /\ initCalls' = initCalls + 1
  /\ UNCHANGED <<appConfig, ctor, config, dynamicRouter, routers,
                 shutdownCalled, req, codec>>

InitApp(loadable) ==
  /\ ctor = "ok"
  /\ Len(routers) < MaxVersions
  /\ LET r == reloadDynamicRouter(config, config.openapiSpec, loadable)
     IN  /\ dynamicRouter' = Len(routers) + 1
         /\ IF r.threw
              THEN /\ routers' = Append(routers, r.router)
                   /\ stack' = stack \o InitHead
              ELSE /\ routers' = Append(routers, InitRouter(config, r.router))
                   /\ stack' = stack \o InitHead \o InitTail
         /\ readyState' = ReadyAfterInit(r.threw, readyState)
         /\ phase' = IF r.threw THEN phase ELSE "initialised"
  /\ initCalls' = initCalls + 1
  /\ UNCHANGED <<appConfig, ctor, config, shutdownCalled, req, codec>>

-----------------------------------------------------------------------------
(* shutdown, lines 344-346 *)

\* A shutdown that also lets go of the current Router.
ShutdownDropsRouter ==
  /\ ctor = "ok"
  /\ readyState' = FALSE
  /\ shutdownCalled' = TRUE
  /\ phase' = "shutdown"
  /\ dynamicRouter' = 0
  /\ UNCHANGED <<appConfig, ctor, config, stack, routers, initCalls, req,
                 codec>>

Shutdown ==
  /\ ctor = "ok"
  /\ readyState' = FALSE
  /\ shutdownCalled' = TRUE
  /\ phase' = "shutdown"
  /\ UNCHANGED <<appConfig, ctor, config, stack, dynamicRouter, routers,
                 initCalls, req, codec>>

-----------------------------------------------------------------------------
(* Errors.  An error value carries its class; instanceof follows the class  *)
(* hierarchy of js-node-errors and express-openapi-validator.               *)

NoCause == [cls |-> "none", message |-> ""]

NoErr ==
  [cls |-> "none", message |-> "", code |-> "", status |-> 0,
   isPublic |-> FALSE, details |-> <<>>, errors |-> <<>>, cause |-> NoCause]

\* A thrown value that is not an ExtendableError: Error, SyntaxError,
\* TypeError, or one of the validators' errors.  `errors` is the validator's
\* per-field issue list; `status` is the status the library put on the value.
Thrown(cls, message, status, errors) ==
  [cls |-> cls, message |-> message, code |-> "", status |-> status,
   isPublic |-> FALSE, details |-> <<>>, errors |-> errors, cause |-> NoCause]

\* The classes of express-openapi-validator's error namespace.
ValidatorClasses ==
  {"oav.BadRequest", "oav.Unauthorized", "oav.NotFound",
   "oav.MethodNotAllowed", "oav.NotAcceptable", "oav.UnsupportedMediaType"}

\* err.name of a validator error.
NameOf(cls) ==
  CASE cls = "oav.BadRequest"           -> "Bad Request"
    [] cls = "oav.Unauthorized"         -> "Unauthorized"
    [] cls = "oav.NotFound"             -> "Not Found"
    [] cls = "oav.MethodNotAllowed"     -> "Method Not Allowed"
    [] cls = "oav.NotAcceptable"        -> "Not Acceptable"
    [] cls = "oav.UnsupportedMediaType" -> "Unsupported Media Type"
    [] OTHER                            -> cls

\* The classes that extend ApiError.
ApiErrorClasses ==
  {"ApiError", "DetailedError", "UnauthorizedError", "EndpointNotFoundError",
   "MethodNotAllowedError", "NotAcceptableError", "UnsupportedMediaTypeError",
   "ResourceNotFoundError"}

\* err instanceof parent
InstanceOf(err, parent) ==
  CASE parent = "ExtendableError" ->
         err.cls \in ApiErrorClasses \cup {"ExtendableError"}
    [] parent = "ApiError" -> err.cls \in ApiErrorClasses
    [] OTHER -> err.cls = parent

CauseOf(err) == [cls |-> err.cls, message |-> err.message]

\* Options of the ApiError constructor; 0 and "undefined" stand for an
\* absent option.
Opts(status, code, isPublic) ==
  [status |-> status, code |-> code, isPublic |-> isPublic]

NoOpts == Opts(0, "undefined", "undefined")

\* new ApiError(message, opts, cause): status 500, code error.unexpected and
\* isPublic false unless given.
ApiError(message, opts, cause) ==
  [cls      |-> "ApiError",
   message  |-> message,
   code     |-> IF opts.code = "undefined" THEN "error.unexpected" ELSE opts.code,
   status   |-> IF opts.status = 0 THEN 500 ELSE opts.status,
   isPublic |-> opts.isPublic = "true",
   details  |-> <<>>,
   errors   |-> <<>>,
   cause    |-> cause]

\* new DetailedError(message, details, opts, cause)
DetailedError(message, details, opts, cause) ==
  [ApiError(message, opts, cause) EXCEPT !.cls = "DetailedError",
                                         !.details = details]

\* new ExtendableError(message, code)
ExtendableError(message, code) ==
  [cls |-> "ExtendableError", message |-> message, code |-> code, status |-> 0,
   isPublic |-> FALSE, details |-> <<>>, errors |-> <<>>, cause |-> NoCause]

\* The ApiError subclasses with a fixed status: new X(message, cause).
UnauthorizedError(message, cause) ==
  [ApiError(message, Opts(401, "error.unauthorized", "true"), cause)
     EXCEPT !.cls = "UnauthorizedError"]

EndpointNotFoundError(message, cause) ==
  [ApiError(message, Opts(404, "error.endpoint.not-found", "true"), cause)
     EXCEPT !.cls = "EndpointNotFoundError"]

MethodNotAllowedError(message, cause) ==
  [ApiError(message, Opts(405, "error.method.not-allowed", "true"), cause)
     EXCEPT !.cls = "MethodNotAllowedError"]

NotAcceptableError(message, cause) ==
  [ApiError(message, Opts(406, "error.not-acceptable", "true"), cause)
     EXCEPT !.cls = "NotAcceptableError"]

UnsupportedMediaTypeError(message, cause) ==
  [ApiError(message, Opts(415, "error.unsupported-media-type", "true"), cause)
     EXCEPT !.cls = "UnsupportedMediaTypeError"]

\* Lines 257-261: one detail per validator issue.
DetailOf(item) ==
  [target |-> item.path, message |-> item.message, code |-> item.errorCode]

DetailsOf(errors) == [i \in 1..Len(errors) |-> DetailOf(errors[i])]

\* A chain that tests NotFound before Unauthorized and maps it to the wrong
\* kind, and drops the cause.
openApiErrorTranslationMixedUp(err) ==
  IF InstanceOf(err, "oav.BadRequest")
    THEN DetailedError(NameOf(err.cls), <<>>,
                       Opts(BAD_REQUEST, "error.request.invalid", "true"),
                       CauseOf(err))
  ELSE IF err.cls \in ValidatorClasses \cup {"JwtUnauthorizedError"}
    THEN EndpointNotFoundError(err.message, NoCause)
  ELSE err

\* Lines 255-289: the first matching branch decides.
openApiErrorTranslation(err) ==
  IF InstanceOf(err, "oav.BadRequest")
    THEN DetailedError(NameOf(err.cls), DetailsOf(err.errors),
                       Opts(BAD_REQUEST, "error.request.invalid", "true"),
                       CauseOf(err))
  ELSE IF InstanceOf(err, "oav.Unauthorized")
          \/ InstanceOf(err, "JwtUnauthorizedError")
    THEN UnauthorizedError(err.message, CauseOf(err))
  ELSE IF InstanceOf(err, "oav.NotFound")
    THEN EndpointNotFoundError(err.message, CauseOf(err))
  ELSE IF InstanceOf(err, "oav.MethodNotAllowed")
    THEN MethodNotAllowedError(err.message, CauseOf(err))
  ELSE IF InstanceOf(err, "oav.NotAcceptable")
    THEN NotAcceptableError(err.message, CauseOf(err))
  ELSE IF InstanceOf(err, "oav.UnsupportedMediaType")
    THEN UnsupportedMediaTypeError(err.message, CauseOf(err))
  ELSE err

\* Lines 300-313.
errorTranslation(err) ==
  IF InstanceOf(err, "SyntaxError")
    THEN ApiError(err.message,
                  Opts(BAD_REQUEST, "error.request.invalid", "true"),
                  CauseOf(err))
  ELSE IF ~InstanceOf(err, "ApiError") /\ InstanceOf(err, "ExtendableError")
    THEN ApiError(err.message,
                  Opts(0, IF err.code = "" THEN "undefined" ELSE err.code,
                       "undefined"),
                  CauseOf(err))
  ELSE IF ~InstanceOf(err, "ExtendableError")
    THEN ApiError(err.message, NoOpts, CauseOf(err))
  ELSE err

-----------------------------------------------------------------------------
(* Requests and responses *)

\* What a response carries.  t: "none", "text" (a string, as res.send('OK')
\* or sendStatus write), "obj" (a structured object) or "error" (the error
\* body of the renderer, an object too).
NoPayload ==
  [t |-> "none", text |-> "", message |-> "", code |-> "", stack |-> FALSE,
   hasDetails |-> FALSE, details |-> <<>>]

Text(s) == [NoPayload EXCEPT !.t = "text", !.text = s]

Obj(s) == [NoPayload EXCEPT !.t = "obj", !.text = s]

ErrorBody(message, code, hasStack, hasDetails, details) ==
  [t |-> "error", text |-> "", message |-> message, code |-> code,
   stack |-> hasStack, hasDetails |-> hasDetails, details |-> details]

\* res: headersSent, the status and payload written, and whether the payload
\* went out as an envelope {data: ciphertext} and with which randNum;
\* writes counts the times a status and body were written (ghost).
NoRes ==
  [sent |-> FALSE, status |-> 0, payload |-> NoPayload, enveloped |-> FALSE,
   randNum |-> Undefined, body |-> Undefined, writes |-> 0]

\* The payload as the value handed to res.send or res.json.
ToJson(payload) ==
  CASE payload.t = "text" -> Str(payload.text)
    [] payload.t = "obj"  -> ObjV(<<Member("message", Str(payload.text))>>)
    [] payload.t = "error" ->
         ObjV(<<Member("message", Str(payload.message)),
                Member("code", Str(payload.code)),
                Member("stack", IF payload.stack THEN Str("stack") ELSE Undefined),
                Member("details",
                       IF payload.hasDetails
                         THEN Arr([n \in 1..Len(payload.details) |->
                                ObjV(<<Member("target", Str(payload.details[n].target)),
                                       Member("message", Str(payload.details[n].message)),
                                       Member("code", Str(payload.details[n].code))>>)])
                         ELSE Undefined)>>)
    [] OTHER -> Undefined

\* The key the instance is configured with, when it has one.
ServerKey == "K1"

\* Lines 221-229: the envelope the wrapper sends in place of data.
Envelope(data, randNum, envKey) ==
  ObjV(<<Member("data",
                encryptData(ObjV(<<Member("responseData", data),
                                   Member("randNum", randNum)>>), envKey))>>)

\* An outcome chosen by a collaborator: the schema validator or a route of
\* the caller's router.  t: "pass" (next()), "raise" (next(err) or throw),
\* "send" (res.send), "json" (res.json), "sendThenRaise".
Choice(t, payload, err) == [t |-> t, payload |-> payload, err |-> err]

NoChoice == Choice("pass", NoPayload, NoErr)

\* A request as it arrives.
NewReq(method, path, body, token) ==
  [st       |-> "run",        \* "idle" | "run" | "done"
   method   |-> method,
   path     |-> path,
   wire     |-> body,         \* the body on the wire: a value, Undefined
                              \* when there is none, or Malformed
   token    |-> token,        \* the x-token header, Undefined when absent
   epoch    |-> initCalls,    \* init() calls before it arrived (ghost)
   built    |-> \E p \in 1..Len(stack) : stack[p] = "errorHandler",
                              \* an init() had returned by then (ghost)
   overlap  |-> FALSE,        \* another request was in flight then (ghost)
   pos      |-> 0,            \* the last layer of this.app it ran
   body     |-> Undefined,    \* req.body
   randNum  |-> Undefined,    \* req.randNum
   err      |-> NoErr,        \* the error being forwarded by next(err)
   raised   |-> NoErr,        \* the error as first raised (ghost)
   raisedBy |-> "",           \* the layer that raised it (ghost)
   ver      |-> 0,            \* the Router the dispatch layer called
   inRouter |-> FALSE,        \* the request is inside that Router
   rpos     |-> 0,            \* the layer of that Router to run next
   wrapped  |-> FALSE,        \* res.send is the wrapper of modifyResponseBody
   wrapRand |-> Undefined,    \* the randNum the wrapper closed over
   res      |-> NoRes,
   final    |-> FALSE,        \* it ended in Express' final handler
   log      |-> <<>>,         \* the values given to this.logger.error while
                              \* it was handled, in order
   trace    |-> <<>>]         \* the layers that ran, in order (ghost)

IdleReq == [NewReq("", "", Undefined, Undefined) EXCEPT !.st = "idle", !.epoch = 0]

\* One entry of the trace: layer k; for a layer of a Router, v is the Router
\* and src the schema the layer was built from.  What the layer could see
\* when it ran is kept with it: this.dynamicRouter (cur) for the dispatch
\* layer and the layers of a Router, this.readyState (ready) and the phase
\* for the probes.
Ran(k, v, src) ==
  [k     |-> k,
   v     |-> v,
   src   |-> src,
   cur   |-> IF k \in {"dispatch", "swaggerUI", "validator"} THEN dynamicRouter ELSE 0,
   ready |-> IF k \in {"health", "ready"} THEN readyState ELSE FALSE,
   phase |-> IF k \in {"health", "ready"} THEN phase ELSE "-",
   before |-> NoRes]

\* The renderer's entry keeps the response as it was when the error reached
\* it (ghost).
Visit(r, k) ==
  [r EXCEPT !.trace =
     Append(@, [Ran(k, 0, "-") EXCEPT
                  !.before = IF k = "errorHandler" THEN r.res ELSE NoRes])]

\* typeof data === 'object' (line 220)
IsObject(payload) == payload.t \in {"obj", "error"}

\* res.send(payload): lines 219-233 when the wrapper is installed.
Send(r, status, payload) ==
  LET env == r.wrapped /\ IsObject(payload)
  IN  [r EXCEPT !.res = [sent |-> TRUE, status |-> status, payload |-> payload,
                         enveloped |-> env,
                         randNum |-> IF env THEN r.wrapRand ELSE Undefined,
                         body |-> IF env
                                    THEN Envelope(ToJson(payload), r.wrapRand, ServerKey)
                                    ELSE ToJson(payload),
                         writes |-> r.res.writes + 1]]

\* res.json(payload): Express serialises first and calls res.send with the
\* string, so the wrapper sees a string.
Json(r, status, payload) ==
  [r EXCEPT !.res = [sent |-> TRUE, status |-> status, payload |-> payload,
                     enveloped |-> FALSE, randNum |-> Undefined,
                     body |-> ToJson(payload),
                     writes |-> r.res.writes + 1]]

\* res.sendStatus(code): the status with its standard text as the body.
StatusText(status) ==
  CASE status = OK -> "OK"
    [] status = SERVICE_UNAVAILABLE -> "Service Unavailable"
    [] OTHER -> "?"

SendStatus(r, status) == Send(r, status, Text(StatusText(status)))

Done(r) == [r EXCEPT !.st = "done"]

\* next(err) / throw err inside layer k
Raise(r, err, k) ==
  [r EXCEPT !.err = err,
            !.raised = IF r.raised = NoErr THEN err ELSE @,
            !.raisedBy = IF r.raised = NoErr THEN k ELSE @,
            !.inRouter = FALSE]

-----------------------------------------------------------------------------
(* The layers of this.app *)

\* Envelope stages are active: a key is configured and the environment is
\* not development (lines 111, 211).
EnvelopeActive(cfg) == cfg.encryptionKey /\ cfg.env # ENV_DEV

\* request.body && request.body.data (line 111)
HasData(body) == Truthy(body) /\ Truthy(Field(body, "data"))

\* x || 0
OrZero(x) == IF Truthy(x) THEN x ELSE Num("0")

\* A body that is not JSON text.
Malformed == Val("malformed", "", <<>>)

\* express.json(): a malformed body is a SyntaxError with status 400; a
\* request without a body keeps the empty object.
jsonParser(r) ==
  CASE r.wire = Malformed ->
         Raise(r, Thrown("SyntaxError", "Unexpected token } in JSON at position 11",
                         BAD_REQUEST, <<>>), "json")
    [] r.wire = Undefined -> [r EXCEPT !.body = ObjV(<<>>)]
    [] OTHER -> [r EXCEPT !.body = r.wire]

\* A liveness probe that answers from the readiness flag.
healthHandlerFromReadyState(r) ==
  IF readyState THEN Done(SendStatus(r, OK))
                ELSE Done(SendStatus(r, SERVICE_UNAVAILABLE))

\* Lines 141-143.
healthHandler(r) == Done(SendStatus(r, OK))

\* A readiness probe that ignores the flag.
readyHandlerAlwaysOk(r) == Done(SendStatus(r, OK))

\* Lines 146-152.
readyHandler(r) ==
  IF readyState THEN Done(SendStatus(r, OK))
                ELSE Done(SendStatus(r, SERVICE_UNAVAILABLE))

\* Lines 154-156.
rootHandler(r) == Done(SendStatus(r, OK))

\* What the cipher may do inside the decryption layer with a data field it
\* cannot decrypt.
DecoderChoices == { Choice(how, NoPayload, NoErr) : how \in CipherOutcomes }

\* Lines 110-117.  Reading a member of null (the value decryptData gives
\* when decrypting threw) throws a TypeError.
decoder(r, cfg, c) ==
  IF HasData(r.body) /\ EnvelopeActive(cfg)
    THEN LET decryptedData == decryptData(Field(r.body, "data"), ServerKey, c.t)
         IN  IF decryptedData = Null
               THEN Raise(r, Thrown("TypeError",
                                    "Cannot read properties of null (reading 'actualData')",
                                    0, <<>>), "decoder")
               ELSE [r EXCEPT !.body = Field(decryptedData, "actualData"),
                              !.randNum = Field(decryptedData, "randNum")]
    ELSE r

\* Lines 296-298: the first statement of the second translation layer logs
\* the error the layer was given.
loggerError(r, err, cfg) ==
  IF cfg.env # ENV_TEST THEN [r EXCEPT !.log = Append(@, err)] ELSE r

\* First layer of Router v at or after index `from` that serves the path
\* (the docs endpoint is mounted on SWAGGER_UI; the validator serves every
\* path); 0 when there is none.
RServes(layer, path) == layer.k = "validator" \/ path = SWAGGER_UI

RNext(v, path, from) ==
  LET L == routers[v].layers
      S == { j \in from..Len(L) : RServes(L[j], path) }
  IN  IF S = {} THEN 0 ELSE CHOOSE j \in S : \A k \in S : j <= k

\* The Router the dispatch layer hands the request to: the value of
\* this.dynamicRouter when the layer runs (line 164).
DispatchTarget == dynamicRouter

\* Lines 160-165.
dispatch(r) ==
  IF DispatchTarget = 0
    THEN Raise(r, Thrown("Error", "Dynamic router is used before it's created",
                         0, <<>>), "dispatch")
    ELSE LET j == RNext(DispatchTarget, r.path, 1)
         IN  [r EXCEPT !.ver = DispatchTarget, !.inRouter = (j # 0), !.rpos = j]

\* A wrap whose randNum is one variable shared by all requests: a request
\* finds the value another request left there.
modifyResponseBodyShared(r, cfg) ==
  LET own == IF r.method = "GET" THEN OrZero(r.token)
             ELSE IF Truthy(r.body) THEN OrZero(r.randNum)
             ELSE Num("0")
      others == { j \in ReqIds : req[j].wrapped /\ req[j].wrapRand # own }
  IN  IF EnvelopeActive(cfg)
        THEN [r EXCEPT !.wrapped = TRUE,
                       !.wrapRand = IF others = {} THEN own
                                    ELSE req[CHOOSE j \in others : TRUE].wrapRand]
        ELSE r

\* Lines 210-236: the wrapper is a property of this request's res and closes
\* over a randNum declared inside the handler.
modifyResponseBody(r, cfg) ==
  IF EnvelopeActive(cfg)
    THEN [r EXCEPT !.wrapped = TRUE,
                   !.wrapRand = IF r.method = "GET" THEN OrZero(r.token)
                                ELSE IF Truthy(r.body) THEN OrZero(r.randNum)
                                ELSE Num("0")]
    ELSE r

\* Line 241: a route of the caller's router; c is what the route does.
callerRoute(r, c) ==
  CASE c.t = "send"          -> Done(Send(r, OK, c.payload))
    [] c.t = "json"          -> Done(Json(r, OK, c.payload))
    [] c.t = "raise"         -> Raise(r, c.err, "router")
    [] c.t = "sendThenRaise" -> Raise(Send(r, OK, c.payload), c.err, "router")
    [] OTHER                 -> r

\* A fallback that calls next() without an error.
notFoundSilent(r) == r

\* Lines 244-251.
notFound(r) ==
  Raise(r, ApiError("API endpoint not found",
                    Opts(NOT_FOUND, "error.endpoint.not-found", "true"), NoCause),
        "notFound")

\* A renderer that shows every message, private ones included.
RenderBodyLeaky(err, cfg) ==
  ErrorBody(err.message,
            err.code,
            cfg.env = ENV_DEV,
            InstanceOf(err, "DetailedError"),
            IF InstanceOf(err, "DetailedError") THEN err.details ELSE <<>>)

\* Lines 326-340: the body and status the renderer writes.
RenderBody(err, cfg) ==
  ErrorBody(IF err.isPublic THEN err.message ELSE GenericMessage,
            err.code,
            cfg.env = ENV_DEV,
            InstanceOf(err, "DetailedError"),
            IF InstanceOf(err, "DetailedError") THEN err.details ELSE <<>>)

\* A renderer that does not look at res.headersSent.
errorHandlerWritesAgain(r, cfg) ==
  Done(Json(r, r.err.status, RenderBody(r.err, cfg)))

\* Lines 321-341.
errorHandler(r, cfg) ==
  IF r.res.sent
    THEN r
    ELSE Done(Json(r, r.err.status, RenderBody(r.err, cfg)))

\* Express' final handler, reached when no layer is left: 404 when there is
\* no error, the error's status (500 when it has none) otherwise; nothing is
\* written once the headers are sent.  It writes with res.end, not res.send.
finalhandler(r) ==
  LET status == IF r.err = NoErr THEN NOT_FOUND
                ELSE IF r.err.status \in 400..599 THEN r.err.status
                ELSE 500
  IN  [r EXCEPT !.st = "done", !.final = TRUE,
                !.res = IF r.res.sent THEN @
                        ELSE [sent |-> TRUE, status |-> status,
                              payload |-> Text("finalhandler"),
                              enveloped |-> FALSE, randNum |-> Undefined,
                              body |-> Str("finalhandler"),
                              writes |-> 1]]

\* next() runs only plain layers whose route matches, next(err) only the
\* error-handling layers.
Applies(k, r) ==
  IF r.err # NoErr THEN k \in ErrorLayers
  ELSE CASE k \in ErrorLayers -> FALSE
         [] k = "health" -> r.method = "GET" /\ r.path = HEALTH_CHECK
         [] k = "ready"  -> r.method = "GET" /\ r.path = READY_CHECK
         [] k = "root"   -> r.method = "GET" /\ r.path = ROOT
         [] k = "router" -> r.path = TEST_ROUTE
         [] OTHER -> TRUE

\* The next layer of this.app for the request; 0 when none is left.
NextPos(r) ==
  LET S == { p \in (r.pos + 1)..Len(stack) : Applies(stack[p], r) }
  IN  IF S = {} THEN 0 ELSE CHOOSE p \in S : \A q \in S : p <= q

RunAppLayer(r, k, c) ==
  LET v == Visit(r, k)
  IN  CASE k = "json"                    -> jsonParser(v)
        [] k = "customBodyParser"        -> jsonParser(v)
        [] k = "health"                  -> healthHandler(v)
        [] k = "ready"                   -> readyHandler(v)
        [] k = "root"                    -> rootHandler(v)
        [] k = "decoder"                 -> decoder(v, config, c)
        [] k = "dispatch"                ->
             dispatch([r EXCEPT !.trace = Append(@, Ran(k, DispatchTarget, "-"))])
        [] k = "modifyResponseBody"      -> modifyResponseBody(v, config)
        [] k = "router"                  -> callerRoute(v, c)
        [] k = "notFound"                -> notFound(v)
        [] k = "openApiErrorTranslation" ->
             [v EXCEPT !.err = openApiErrorTranslation(r.err)]
        [] k = "errorTranslation"        ->
             loggerError([v EXCEPT !.err = errorTranslation(r.err)], r.err, config)
        [] k = "errorHandler"            -> errorHandler(v, config)
        [] OTHER                         -> v   \* cors, urlencoded, cookieParser,
                                                \* logger, helmet, frameguard

-----------------------------------------------------------------------------
(* The layers of a dynamic Router *)

\* A request that follows this.dynamicRouter while it is inside a Router.
RouterOfCurrent(r) == dynamicRouter

\* The Router a request that is inside one keeps running: the object the
\* dispatch layer called, whatever this.dynamicRouter is by now.
RouterOf(r) == r.ver

\* After a layer of the Router called next(): the next layer of the same
\* Router, or back to this.app.
LeaveOrStay(r) ==
  LET j == RNext(RouterOf(r), r.path, r.rpos + 1)
  IN  IF j = 0 THEN [r EXCEPT !.inRouter = FALSE, !.rpos = 0]
               ELSE [r EXCEPT !.rpos = j]

RunRouterLayer(r, c) ==
  LET L == routers[RouterOf(r)].layers
  IN  IF r.rpos > Len(L)
        THEN [r EXCEPT !.inRouter = FALSE, !.rpos = 0]
        ELSE LET layer == L[r.rpos]
                 v == [r EXCEPT !.trace = Append(@, Ran(layer.k, RouterOf(r), layer.src))]
             IN  CASE layer.k = "swaggerUI" ->
                        IF r.path = SWAGGER_UI
                          THEN Done(Send(v, OK, Text("<title>Swagger UI</title>")))
                          ELSE LeaveOrStay(r)
                   [] c.t = "raise" -> Raise(v, c.err, "validator")
                   [] OTHER -> LeaveOrStay(v)

-----------------------------------------------------------------------------
(* Request handling *)

\* The layer the request runs next: "final" for Express' final handler.
NextLayer(r) ==
  IF r.inRouter
    THEN IF r.rpos <= Len(routers[RouterOf(r)].layers)
           THEN routers[RouterOf(r)].layers[r.rpos].k ELSE "leave"
    ELSE IF NextPos(r) = 0 THEN "final" ELSE stack[NextPos(r)]

Advance(r, c) ==
  IF r.inRouter THEN RunRouterLayer(r, c)
  ELSE IF NextPos(r) = 0 THEN finalhandler(r)
  ELSE RunAppLayer([r EXCEPT !.pos = NextPos(r)], stack[NextPos(r)], c)

\* A body without a data member.
PlainBody == ObjV(<<Member("name", Str("a"))>>)

\* The content of an inbound envelope.
Inbound(actualData, randNum) ==
  ObjV(<<Member("actualData", actualData), Member("randNum", randNum)>>)

InboundOk == Inbound(PlainBody, Num("7"))

\* A body {data: ciphertext} whose ciphertext a client made from `content`
\* with `key`.
EnvelopeBody(content, key) == ObjV(<<Member("data", encryptData(content, key))>>)

\* A request arrives.
Arrive(i, Methods, Paths, Bodies, Tokens) ==
  /\ ctor = "ok"
  /\ req[i].st # "run"
  /\ \E m \in Methods, p \in Paths, b \in Bodies, t \in Tokens :
       /\ (m = "GET" => b = Undefined)
       /\ req' = [req EXCEPT ![i] =
                    [NewReq(m, p, b, t) EXCEPT
                       !.overlap = \E j \in ReqIds : req[j].st = "run"]]
  /\ UNCHANGED <<appConfig, ctor, config, stack, readyState, dynamicRouter,
                 routers, initCalls, shutdownCalled, phase, codec>>

\* A request runs its next layer.  VOut: what the validator may do; ROut:
\* what a route of the caller's router may do.
Step(i, VOut, ROut) ==
  /\ req[i].st = "run"
  /\ \E c \in (CASE NextLayer(req[i]) = "validator" -> VOut
                 [] NextLayer(req[i]) = "router"    -> ROut
                 [] NextLayer(req[i]) = "decoder"   -> DecoderChoices
                 [] OTHER                           -> {NoChoice}) :
       req' = [req EXCEPT ![i] = Advance(req[i], c)]
  /\ UNCHANGED <<appConfig, ctor, config, stack, readyState, dynamicRouter,
                 routers, initCalls, shutdownCalled, phase, codec>>

-----------------------------------------------------------------------------
(* Specifications *)

\* The state before new App(cfg).
InitNone ==
  /\ appConfig = NoConfig
  /\ ctor = "none"
  /\ config = NoConfig
  /\ stack = <<>>
  /\ readyState = FALSE
  /\ dynamicRouter = 0
  /\ routers = <<>>
  /\ initCalls = 0
  /\ shutdownCalled = FALSE
  /\ phase = "created"
  /\ req = [i \in ReqIds |-> IdleReq]
  /\ codec = IdleCodec

\* The state after new App(cfg) returned, for the configs of Cfgs under
\* which it returns.
InitWith(Cfgs) ==
  /\ appConfig \in { c \in Cfgs : ~ConstructorThrows(c) }
  /\ ctor = "ok"
  /\ config = appConfig
  /\ stack = ConstructorStack(appConfig)
  /\ readyState = FALSE
  /\ dynamicRouter = 0
  /\ routers = <<>>
  /\ initCalls = 0
  /\ shutdownCalled = FALSE
  /\ phase = "created"
  /\ req = [i \in ReqIds |-> IdleReq]
  /\ codec = IdleCodec

Paths == {HEALTH_CHECK, READY_CHECK, ROOT, SWAGGER_UI, TEST_ROUTE, INVALID}

\* Lifecycle: every schema configuration, GET requests to every path.
LifeConfigs ==
  { Config(b, s, c, ENV_PROD, FALSE, FALSE) :
      b \in BOOLEAN, s \in BOOLEAN, c \in {"undefined", "false"} }

LifeVOut ==
  {NoChoice, Choice("raise", NoPayload, Thrown("oav.NotFound", "not found", NOT_FOUND, <<>>))}

LifeROut ==
  {Choice("send", Obj("ok"), NoErr),
   Choice("raise", NoPayload, Thrown("Error", "boom", 0, <<>>))}

Init == InitWith(LifeConfigs)

Next ==
  \/ \E l \in BOOLEAN : InitApp(l)
  \/ \E a \in BOOLEAN, l \in BOOLEAN : Reload(a, l)
  \/ Shutdown
  \/ \E i \in Solo : Arrive(i, {"GET"}, Paths, {Undefined}, {Undefined})
  \/ \E i \in Solo : Step(i, LifeVOut, LifeROut)

Spec == Init /\ [][Next]_vars

-----------------------------------------------------------------------------
(* Properties of the lifecycle and the probes (Spec) *)

Last(s) == s[Len(s)]

Kinds(r) == { r.trace[n].k : n \in 1..Len(r.trace) }

InStack(k) == \E p \in 1..Len(stack) : stack[p] = k

\* A Router holds what its schema source calls for: the docs endpoint and a
\* validation middleware whenever there is a source.
FullyBuilt(rt) ==
  rt.src # "none" =>
    /\ \E j \in 1..Len(rt.layers) : rt.layers[j].k = "swaggerUI"
    /\ \E j \in 1..Len(rt.layers) : rt.layers[j].k = "validator"

\* C2: in every reachable state this.dynamicRouter, when set, is a fully built
\* Router, and so is the Router of every request that was dispatched.
C2_CurrentVersionFullyBuilt ==
  /\ dynamicRouter # 0 => FullyBuilt(routers[dynamicRouter])
  /\ \A i \in ReqIds : req[i].ver # 0 => FullyBuilt(routers[req[i].ver])

\* C3: the dispatch layer hands a request to the Router that is current when
\* the layer runs, and every layer the request then runs inside a Router is a
\* layer of that same Router, also after this.dynamicRouter has moved on.
C3_RequestKeepsItsVersion ==
  \A i \in ReqIds :
    \A n \in 1..Len(req[i].trace) :
      LET e == req[i].trace[n]
      IN  /\ e.k = "dispatch" => e.v = e.cur
          /\ e.k \in {"swaggerUI", "validator"} =>
               /\ \E d \in 1..(n - 1) :
                    /\ req[i].trace[d].k = "dispatch"
                    /\ req[i].trace[d].v = e.v
               /\ \E j \in 1..Len(routers[e.v].layers) :
                    routers[e.v].layers[j] = RLayer(e.k, e.src)

\* C3 witness: a request ran a layer of its Router after a reload had made
\* another Router current.
C3_Witness ==
  \E i \in ReqIds :
    \E n \in 1..Len(req[i].trace) :
      /\ req[i].trace[n].k = "validator"
      /\ req[i].trace[n].v # req[i].trace[n].cur

\* A finished GET request to `path` that arrived after init() had run.
Probed(r, path) ==
  r.st = "done" /\ r.method = "GET" /\ r.path = path /\ r.epoch >= 1

C5_NeverReadyAfterShutdown == shutdownCalled => ~readyState

\* Every stage init() registers is in the pipeline.
AllRegistered ==
  \A n \in 1..Len(InitHead \o InitTail) : InStack((InitHead \o InitTail)[n])

\* C6: readyState is false at creation; whenever it is true the whole
\* pipeline up to the error renderer is registered and a Router exists; an
\* init() that fails part-way leaves readyState as it was.
C6_ReadyOnlyAfterFullAssembly ==
  /\ [](initCalls = 0 => ~readyState)
  /\ [](readyState => AllRegistered /\ dynamicRouter # 0)
  /\ [][(initCalls' = initCalls + 1 /\ Len(stack') < Len(stack \o InitHead \o InitTail))
          => readyState' = readyState]_vars

\* C6 witness: init() failed while building the Router and readyState is
\* false.
C6_Witness ==
  initCalls = 1 /\ ~InStack("dispatch") /\ InStack("decoder") /\ ~readyState

\* C7: GET /health-check is answered 200 'OK' by the liveness route whatever
\* readyState is.
C7_HealthCheckAlwaysOk ==
  \A i \in ReqIds :
    Probed(req[i], HEALTH_CHECK) =>
      /\ Last(req[i].trace).k = "health"
      /\ req[i].res.status = 200
      /\ req[i].res.payload = Text("OK")

\* C7 witness: a liveness probe answered 200 after shutdown(), with
\* readyState false.
C7_Witness ==
  \E i \in ReqIds :
    /\ Probed(req[i], HEALTH_CHECK)
    /\ ~Last(req[i].trace).ready
    /\ Last(req[i].trace).phase = "shutdown"
    /\ req[i].res.status = 200

-----------------------------------------------------------------------------
(* Construction (SpecCtor): new App(cfg) for every config, then the        *)
(* lifecycle calls on the instance, if there is one.                        *)

NextCtor ==
  \/ \E cfg \in AllConfigs : Construct(cfg)
  \/ \E l \in BOOLEAN : InitApp(l)
  \/ Shutdown

SpecCtor == InitNone /\ [][NextCtor]_vars

\* C8: construction fails, with nothing registered, exactly for the configs
\* that do not explicitly disable the schema check and give neither a base
\* schema path nor an in-memory schema.
C8_ConstructorChecksSchemaSource ==
  ctor # "none" =>
    LET disabled == appConfig.shouldCheckOpenApiBaseSchema = "false"
        source   == appConfig.openapiBaseSchema \/ appConfig.openapiSpec
    IN  /\ (~disabled /\ ~source) =>
             ctor = "failed" /\ stack = <<>> /\ config = NoConfig /\ initCalls = 0
        /\ (disabled \/ source) =>
             ctor = "ok" /\ config = appConfig /\ stack[1] = "cors"

\* C8 witness: a construction that failed, and nothing was registered.
C8_Witness ==
  /\ ctor = "failed"
  /\ appConfig.shouldCheckOpenApiBaseSchema = "undefined"
  /\ stack = <<>>

-----------------------------------------------------------------------------
(* The error chain (SpecErr): one schema configuration in every            *)
(* environment, requests whose validation or route raises every kind of    *)
(* error the chain distinguishes.                                           *)

ErrConfigs == { Config(TRUE, FALSE, "undefined", e, FALSE, FALSE) : e \in Envs }

Issue(path, message, errorCode) ==
  [path |-> path, message |-> message, errorCode |-> errorCode]

Issue1 == Issue("/body/name", "must be string", "type.openapi.validation")
Issue2 == Issue("/query/limit", "must be integer", "type.openapi.validation")

ResourceNotFoundError(id) ==
  [ApiError(id, Opts(NOT_FOUND, "error.resource.not-found", "true"), NoCause)
     EXCEPT !.cls = "ResourceNotFoundError"]

RaiseChoice(err) == Choice("raise", NoPayload, err)

ErrVOut ==
  {NoChoice}
  \cup { RaiseChoice(Thrown("oav.BadRequest", "request/body/name must be string",
                            400, errs)) : errs \in {<<Issue1>>, <<Issue1, Issue2>>} }
  \cup { RaiseChoice(Thrown("oav.Unauthorized", "no token", 401, <<Issue1>>)),
         RaiseChoice(Thrown("oav.NotFound", "not found", 404, <<Issue1>>)),
         RaiseChoice(Thrown("oav.MethodNotAllowed", "POST method not allowed",
                            405, <<Issue1>>)),
         RaiseChoice(Thrown("oav.NotAcceptable", "not acceptable", 406, <<Issue1>>)),
         RaiseChoice(Thrown("oav.UnsupportedMediaType", "unsupported media type",
                            415, <<Issue1>>)) }

ErrROut ==
  { Choice("send", Obj("ok"), NoErr),
    Choice("sendThenRaise", Obj("ok"), Thrown("Error", "boom", 0, <<>>)),
    RaiseChoice(Thrown("Error", "boom", 0, <<>>)),
    RaiseChoice(Thrown("TypeError", "x is undefined", 0, <<>>)),
    RaiseChoice(Thrown("SyntaxError", "Unexpected token < in JSON at position 0",
                       0, <<>>)),
    RaiseChoice(Thrown("JwtUnauthorizedError", "jwt expired", 401, <<>>)),
    RaiseChoice(ExtendableError("extendable", "extendable-error")),
    RaiseChoice(ApiError("api", NoOpts, NoCause)),
    RaiseChoice(ApiError("secret", NoOpts, NoCause)),
    RaiseChoice(ApiError("api", Opts(0, "error.some-error", "false"), NoCause)),
    RaiseChoice(ApiError("api", Opts(405, "error.some-error", "true"), NoCause)),
    RaiseChoice(DetailedError("detailed", <<>>, Opts(500, "10", "true"), NoCause)),
    RaiseChoice(ResourceNotFoundError("TestId")) }

InitErr == InitWith(ErrConfigs)

NextErr ==
  \/ InitApp(TRUE)
  \/ \E i \in Solo :
       Arrive(i, {"GET", "POST"}, {TEST_ROUTE, INVALID},
              {Undefined, PlainBody, Malformed}, {Undefined})
  \/ \E i \in Solo : Step(i, ErrVOut, ErrROut)

SpecErr == InitErr /\ [][NextErr]_vars

\* The renderer wrote the response of a finished request.
Rendered(r) ==
  r.st = "done" /\ ~r.final /\ Last(r.trace).k = "errorHandler"
  /\ r.res.payload.t = "error"

\* How often layer k ran for the request.
Times(r, k) == Cardinality({ n \in 1..Len(r.trace) : r.trace[n].k = k })

\* The status the claim gives for each validator error.
MappedStatus(cls) ==
  CASE cls = "oav.BadRequest"           -> 400
    [] cls \in {"oav.Unauthorized", "JwtUnauthorizedError"} -> 401
    [] cls = "oav.NotFound"             -> 404
    [] cls = "oav.MethodNotAllowed"     -> 405
    [] cls = "oav.NotAcceptable"        -> 406
    [] cls = "oav.UnsupportedMediaType" -> 415

C10_OtherErrorsClassifiedOnce ==
  \A i \in ReqIds :
    LET r == req[i]
        o == r.raised
        b == r.res.payload
    IN  (Rendered(r) /\ o.cls \notin ValidatorClasses \cup {"JwtUnauthorizedError"}) =>
          /\ Times(r, "errorTranslation") = 1
          /\ CASE o.cls = "SyntaxError" /\ r.raisedBy \in {"json", "customBodyParser"} ->
                    /\ r.res.status = 400
                    /\ b.code = "error.request.invalid"
                    /\ b.message = o.message
               [] o.cls = "ExtendableError" ->
                    r.res.status = 500 /\ b.code = o.code
               [] o.cls \in ApiErrorClasses ->
                    /\ r.err = o
                    /\ r.res.status = o.status
                    /\ b.code = o.code
                    /\ b.message = IF o.isPublic THEN o.message ELSE GenericMessage
               [] OTHER ->
                    /\ r.res.status = 500
                    /\ b.code = "error.unexpected"
                    /\ b.message = GenericMessage

\* The canonical errors the chain hands to the renderer in SpecErr.
CanonicalErrors ==
  { errorTranslation(openApiErrorTranslation(c.err)) :
      c \in { d \in ErrVOut \cup ErrROut : d.t \in {"raise", "sendThenRaise"} } }

\* C11: the renderer answers a canonical error with the error's status and
\* code; the message is the error's own when isPublic is true and the fixed
\* generic string when it is false, so two private errors that differ only
\* in their message are answered with the same message.
C11_RendererHidesPrivateMessages ==
  /\ \A i \in ReqIds :
       LET r == req[i]
           b == r.res.payload
       IN  Rendered(r) =>
             /\ InstanceOf(r.err, "ApiError")
             /\ r.res.status = r.err.status
             /\ b.code = r.err.code
             /\ b.message = IF r.err.isPublic THEN r.err.message ELSE GenericMessage
  /\ \A e1, e2 \in CanonicalErrors :
       (~e1.isPublic /\ ~e2.isPublic /\ e1 = [e2 EXCEPT !.message = e1.message]) =>
         RenderBody(e1, config).message = RenderBody(e2, config).message

\* C11 witness: a private error whose message is not the generic one was
\* rendered, and another private error differs from it only in the message.
C11_Witness ==
  \E i \in ReqIds :
    /\ Rendered(req[i])
    /\ ~req[i].err.isPublic
    /\ req[i].err.message # GenericMessage
    /\ req[i].res.payload.message = GenericMessage
    /\ \E e \in CanonicalErrors :
         /\ e # req[i].err
         /\ e = [req[i].err EXCEPT !.message = e.message]

\* C12: the error body has a details field exactly when the canonical
\* error's details list is non-empty, and a stack field exactly when the
\* environment is development.
C12_DetailsOnlyWhenNonEmpty ==
  \A i \in ReqIds :
    LET r == req[i]
        b == r.res.payload
    IN  Rendered(r) =>
          /\ b.hasDetails <=> (Len(r.err.details) > 0)
          /\ b.stack <=> (config.env = ENV_DEV)

\* The entries of the trace where an error reached the renderer after the
\* response had begun to be written.
LateRenders(r) ==
  { n \in 1..Len(r.trace) :
      r.trace[n].k = "errorHandler" /\ r.trace[n].before.sent }

\* C13: when an error reaches the renderer after the response has begun to
\* be written, the renderer writes nothing and passes the error on: the
\* response stays the one the handler sent, the error is still being
\* forwarded, and the request can only end in the final handler.  No
\* request has more than one response written.
C13_NoSecondWrite ==
  \A i \in ReqIds :
    LET r == req[i]
    IN  /\ r.res.writes <= 1
        /\ \A n \in LateRenders(r) :
             /\ r.res = r.trace[n].before
             /\ r.err # NoErr
             /\ r.st = "done" => r.final

\* C13 witness: a route sent 200 and then raised; the error reached the
\* renderer, and the finished request has the route's response.
C13_Witness ==
  \E i \in ReqIds :
    /\ req[i].st = "done"
    /\ LateRenders(req[i]) # {}
    /\ req[i].raisedBy = "router"
    /\ req[i].res.status = OK
    /\ req[i].res.payload = Obj("ok")
    /\ req[i].res.writes = 1

\* A finished request to a path that no probe, docs or caller route
\* matches, arrived after an init() had returned.
Unmatched(r) == r.st = "done" /\ r.built /\ r.path = INVALID

\* C14 as stated: every unmatched request is answered with 404 and the body
\* of the fallback, message 'API endpoint not found' and code
\* 'error.endpoint.not-found', with or without schema validation.
C14_FallbackBodyAlways ==
  \A i \in ReqIds :
    LET r == req[i]
    IN  Unmatched(r) =>
          /\ Rendered(r)
          /\ r.res.status = NOT_FOUND
          /\ r.res.payload.message = "API endpoint not found"
          /\ r.res.payload.code = "error.endpoint.not-found"

\* C14 as amended: every unmatched request is answered by the renderer with
\* 404; the body is the fallback's, message 'API endpoint not found' and
\* code 'error.endpoint.not-found', when the request reached the fallback,
\* and carries the validator's own message when the schema validator
\* rejected the path as not found.
C14_NotFoundByFallbackOrValidator ==
  \A i \in ReqIds :
    LET r == req[i]
    IN  Unmatched(r) =>
          /\ Rendered(r)
          /\ r.res.status = NOT_FOUND
          /\ r.raisedBy \in {"validator", "notFound"}
          /\ r.raisedBy = "validator" =>
               /\ r.raised.cls = "oav.NotFound"
               /\ r.res.payload.message = r.raised.message
          /\ r.raisedBy = "notFound" =>
               /\ r.res.payload.message = "API endpoint not found"
               /\ r.res.payload.code = "error.endpoint.not-found"

\* C14 witness: the validator rejected an unmatched path and the answer is
\* 404 with the validator's message.
C14_Witness ==
  \E i \in ReqIds :
    /\ Unmatched(req[i])
    /\ req[i].raisedBy = "validator"
    /\ req[i].res.status = NOT_FOUND
    /\ req[i].res.payload.message = "not found"

-----------------------------------------------------------------------------
(* The order of the stages (SpecPipe): default and custom body parsing,    *)
(* envelope stages active and inactive, requests of every shape, and       *)
(* init() calls that succeed or fail.                                       *)

PipeConfigs ==
  { Config(TRUE, FALSE, "undefined", ENV_PROD, k, p) : k \in BOOLEAN, p \in BOOLEAN }

PipeROut ==
  { Choice("send", Obj("ok"), NoErr),
    Choice("sendThenRaise", Obj("ok"), Thrown("Error", "boom", 0, <<>>)),
    RaiseChoice(Thrown("Error", "boom", 0, <<>>)),
    NoChoice }

InitPipe == InitWith(PipeConfigs)

NextPipe ==
  \/ \E l \in BOOLEAN : InitApp(l)
  \/ \E i \in Solo :
       Arrive(i, {"GET", "POST"}, Paths,
              {Undefined, PlainBody, EnvelopeBody(InboundOk, ServerKey), Malformed},
              {Undefined})
  \/ \E i \in Solo : Step(i, LifeVOut, PipeROut)

SpecPipe == InitPipe /\ [][NextPipe]_vars

\* The place of each layer in the order the code registers the stages:
\* CORS, body parsing, access logging, security headers, probes, envelope
\* decryption, the dynamic router (docs, schema validation), the encryption
\* wrap, the caller's routes, the 404 fallback, translation, renderer.
RegisteredRank(k) ==
  CASE k = "cors" -> 1
    [] k \in {"urlencoded", "json", "cookieParser", "customBodyParser"} -> 2
    [] k = "logger" -> 3
    [] k \in {"helmet", "frameguard"} -> 4
    [] k \in {"health", "ready", "root"} -> 5
    [] k = "decoder" -> 6
    [] k \in {"dispatch", "swaggerUI", "validator"} -> 7
    [] k = "modifyResponseBody" -> 8
    [] k = "router" -> 9
    [] k = "notFound" -> 10
    [] k \in {"openApiErrorTranslation", "errorTranslation"} -> 11
    [] k = "errorHandler" -> 12

\* The place of each layer in the order the claim gives: decryption is part
\* of body decoding, the caller's routes are part of the dynamic route table.
ClaimedRank(k) ==
  CASE k = "cors" -> 1
    [] k \in {"urlencoded", "json", "cookieParser", "customBodyParser", "decoder"} -> 2
    [] k = "logger" -> 3
    [] k \in {"helmet", "frameguard"} -> 4
    [] k \in {"health", "ready", "root"} -> 5
    [] k \in {"dispatch", "swaggerUI", "validator", "router"} -> 6
    [] k = "modifyResponseBody" -> 7
    [] k = "notFound" -> 8
    [] k \in {"openApiErrorTranslation", "errorTranslation"} -> 9
    [] k = "errorHandler" -> 10

\* The stages every request passes unless it has been answered or has
\* raised before.
Mandatory(cfg) ==
  {"cors", "logger", "helmet", "frameguard", "decoder", "dispatch",
   "modifyResponseBody"}
  \cup (IF cfg.customBodyParser THEN {"customBodyParser"}
        ELSE {"urlencoded", "json", "cookieParser"})

\* The stages that answer a request.
Answering == {"health", "ready", "root", "swaggerUI", "router", "errorHandler"}

\* The places where the request went back in the order Rank gives.
Descents(r, Rank(_)) ==
  { n \in 1..Len(r.trace) - 1 : Rank(r.trace[n].k) > Rank(r.trace[n + 1].k) }

\* The request ran its stages in the order Rank gives, once for each init()
\* call whose registrations it reached: it never goes back in the order on
\* an instance with at most one init() call, and goes back at most once for
\* each further call.
Ordered(r, Rank(_)) ==
  Cardinality(Descents(r, Rank)) <= (IF initCalls = 0 THEN 0 ELSE initCalls - 1)

\* A finished request skipped no stage except by short-circuit: it was
\* answered by a stage that answers, it ran every mandatory stage placed
\* before the one that answered it or raised, and once it had raised it ran
\* the translation chain and the renderer.
NoStageSkipped(r, Rank(_)) ==
  LET stop == IF r.raised # NoErr THEN r.raisedBy ELSE Last(r.trace).k
  IN  /\ r.res.sent
      /\ \E n \in 1..Len(r.trace) : r.trace[n].k \in Answering
      /\ \A m \in Mandatory(config) : Rank(m) < Rank(stop) => m \in Kinds(r)
      /\ r.raised # NoErr =>
           {"openApiErrorTranslation", "errorTranslation", "errorHandler"}
             \subseteq Kinds(r)

\* A finished request that arrived after an init() had returned.
HandledAfterInit(r) == r.st = "done" /\ r.built

PassesInOrder(Rank(_)) ==
  \A i \in ReqIds :
    /\ Ordered(req[i], Rank)
    /\ HandledAfterInit(req[i]) => NoStageSkipped(req[i], Rank)

\* C1 as stated: the stages run in the order CORS, body decoding including
\* envelope decryption, logging, security headers, probes, dynamic route
\* table including the caller's routes, encryption wrap, 404 fallback,
\* translation, renderer.
C1_ClaimedOrder == PassesInOrder(ClaimedRank)

\* C1 as amended: the stages run in the order CORS, body parsing, then for
\* each init() call in turn logging, security headers, probes, envelope
\* decryption, dynamic router (docs and schema validation), encryption wrap,
\* caller's routes, 404 fallback, translation, renderer; a request that
\* arrived after an init() had returned skips a stage only by short-circuit.
C1_RegisteredOrder == PassesInOrder(RegisteredRank)

\* C1 witness: a request passed decryption, validation, the wrap and a
\* caller's route that raised, and was answered by the renderer.
C1_Witness ==
  \E i \in ReqIds :
    /\ HandledAfterInit(req[i])
    /\ initCalls = 1
    /\ req[i].raisedBy = "router"
    /\ {"decoder", "validator", "modifyResponseBody", "router", "errorHandler"}
         \subseteq Kinds(req[i])
    /\ Rendered(req[i])

-----------------------------------------------------------------------------
(* The envelope codec on its own (SpecCodec): a payload is encrypted, and   *)
(* the ciphertext, or a string that is no ciphertext, is decrypted.         *)

\* The longest array among the payloads.
MaxElems == 2

Keys == {"K1", "K2"}

Atoms == {Null, Bool(TRUE), Bool(FALSE), Num("0"), Num("7"), Str(""), Str("a")}

Arrays == { Arr(vs) : vs \in UNION { [1..n -> Atoms] : n \in 0..MaxElems } }

\* The payloads: atoms, arrays of atoms, objects, the two envelope contents,
\* and nested arrays and objects.
CodecPayloads ==
  Atoms \cup Arrays
  \cup { ObjV(<<>>),
         ObjV(<<Member("name", Str("a"))>>),
         ObjV(<<Member("data", Str(""))>>),
         Arr(<<Arr(<<>>), ObjV(<<Member("k", Arr(<<Null, Num("7")>>))>>)>>),
         ObjV(<<Member("a", ObjV(<<Member("b", ObjV(<<>>))>>)),
                Member("c", Arr(<<Str("a")>>))>>) }
  \cup { ObjV(<<Member("actualData", a), Member("randNum", n)>>) :
           a \in {Null, ObjV(<<Member("name", Str("a"))>>)},
           n \in {Num("7"), Str("t1")} }
  \cup { ObjV(<<Member("responseData", ObjV(<<Member("message", Str("ok"))>>)),
                Member("randNum", Num("0"))>>) }

\* Strings that are not a ciphertext.
NotCiphertexts == {Str(""), Str("a")}

EncryptPayload(P, K) ==
  /\ codec.st = "idle"
  /\ codec' = CodecRun("enc", P, K, encryptData(P, K), "", Undefined)
  /\ UNCHANGED <<appConfig, ctor, config, stack, readyState, dynamicRouter,
                 routers, initCalls, shutdownCalled, phase, req>>

DecryptCiphertext(K2, how) ==
  /\ codec.st = "enc"
  /\ codec' = [codec EXCEPT !.st = "dec", !.K2 = K2,
                            !.out = decryptData(codec.c, K2, how)]
  /\ UNCHANGED <<appConfig, ctor, config, stack, readyState, dynamicRouter,
                 routers, initCalls, shutdownCalled, phase, req>>

DecryptOther(c, K2, how) ==
  /\ codec.st = "idle"
  /\ codec' = CodecRun("dec", Undefined, "", c, K2, decryptData(c, K2, how))
  /\ UNCHANGED <<appConfig, ctor, config, stack, readyState, dynamicRouter,
                 routers, initCalls, shutdownCalled, phase, req>>

NextCodec ==
  \/ \E P \in CodecPayloads, K \in Keys : EncryptPayload(P, K)
  \/ \E K2 \in Keys, how \in CipherOutcomes : DecryptCiphertext(K2, how)
  \/ \E c \in NotCiphertexts, K2 \in Keys, how \in CipherOutcomes :
       DecryptOther(c, K2, how)

SpecCodec == InitNone /\ [][NextCodec]_vars

\* C19: decrypting a ciphertext with the key it was made with gives a value
\* structurally equal to the payload that was encrypted.
C19_RoundTrip ==
  (codec.st = "dec" /\ codec.c.t = "cipher" /\ codec.K2 = codec.K) =>
    codec.out = codec.P

\* C19 witness: a nested object came back from the round trip.
C19_Witness ==
  /\ codec.st = "dec"
  /\ codec.K2 = codec.K
  /\ codec.P.t = "obj"
  /\ \E n \in 1..Len(codec.P.items) : codec.P.items[n].val.t \in {"obj", "arr"}
  /\ codec.out = codec.P

\* C20: decryptData answers with null whenever the key is not the one the
\* ciphertext was made with, and whenever its input is no ciphertext.
C20_NullOnFailure ==
  (codec.st = "dec" /\ (codec.c.t # "cipher" \/ codec.K2 # codec.K)) =>
    codec.out = Null

-----------------------------------------------------------------------------
(* The envelope stages (SpecEnv): a key configured or not, development and  *)
(* production, requests with and without an inbound envelope, made with the *)
(* instance's key or another one, and routes that answer with res.send,     *)
(* with res.json, with text, or raise.                                      *)

EnvConfigs ==
  { Config(TRUE, FALSE, "undefined", e, k, FALSE) :
      e \in {ENV_DEV, ENV_PROD}, k \in BOOLEAN }

\* The bodies: none, no data member, a data member that is falsy, one that
\* is no ciphertext, and envelopes whose content has every kind of
\* actualData, made with either key, or has no actualData at all.
EnvBodies ==
  { Undefined, PlainBody,
    ObjV(<<Member("data", Str(""))>>),
    ObjV(<<Member("data", Str("a"))>>),
    EnvelopeBody(PlainBody, ServerKey) }
  \cup { EnvelopeBody(Inbound(a, n), k) :
           a \in {PlainBody, ObjV(<<>>), Null, Str(""), Undefined},
           n \in {Num("7"), Str("t1")},
           k \in Keys }

EnvTokens == {Undefined, Str("t1")}

EnvROut ==
  { Choice("send", Obj("ok"), NoErr),
    Choice("json", Obj("ok"), NoErr),
    Choice("send", Text("ok"), NoErr),
    RaiseChoice(Thrown("Error", "boom", 0, <<>>)) }

InitEnv == InitWith(EnvConfigs)

NextEnv ==
  \/ InitApp(TRUE)
  \/ \E i \in Solo :
       Arrive(i, {"GET", "POST"}, {TEST_ROUTE, INVALID, SWAGGER_UI}, EnvBodies,
              EnvTokens)
  \/ \E i \in Solo : Step(i, {NoChoice}, EnvROut)

SpecEnv == InitEnv /\ [][NextEnv]_vars

\* The response went out as an envelope {data: ciphertext}.
IsEnvelope(v) == HasMember(v, "data") /\ Field(v, "data").t = "cipher"

\* What a client holding the instance's key reads from a response envelope.
Opened(v) == decryptData(Field(v, "data"), ServerKey, "throws")

\* The request carries an inbound envelope made with the instance's key
\* whose content has a randNum.
HasInbound(r) ==
  /\ IsEnvelope(r.wire)
  /\ Field(r.wire, "data").s = ServerKey
  /\ HasMember(Opened(r.wire), "randNum")

\* C15: the randNum in a response envelope is, for a request that is not a
\* GET and carries an inbound envelope, the randNum of that envelope,
\* whatever its actualData is; for a GET it is the token header, and 0 when
\* there is none.
C15_RandNumCarriedOver ==
  \A i \in ReqIds :
    LET r == req[i]
        out == Field(Opened(r.res.body), "randNum")
    IN  (r.st = "done" /\ IsEnvelope(r.res.body)) =>
          /\ (r.method # "GET" /\ HasInbound(r)) =>
               out = Field(Opened(r.wire), "randNum")
          /\ (r.method = "GET" /\ r.token # Undefined) => out = r.token
          /\ (r.method = "GET" /\ r.token = Undefined) => out = Num("0")

\* req.body as the body parsers leave it.
BodyAsParsed(r) == IF r.wire = Undefined THEN ObjV(<<>>) ELSE r.wire

\* C17: the decryption layer acts exactly when a key is configured, the
\* environment is not development and the body has a data member: it then
\* raises nothing and replaces the body, with the envelope's actualData and
\* randNum when the data member is an envelope of the instance; otherwise it
\* leaves req.body and req.randNum as they were.
C17_DecoderActsIff ==
  \A i \in ReqIds :
    LET r == req[i]
        pre == BodyAsParsed(r)
    IN  "decoder" \in Kinds(r) =>
          IF config.encryptionKey /\ config.env # ENV_DEV /\ HasMember(pre, "data")
            THEN /\ r.raisedBy # "decoder"
                 /\ r.body # pre
                 /\ (IsEnvelope(pre) /\ Field(pre, "data").s = ServerKey) =>
                      /\ r.body = Field(Opened(pre), "actualData")
                      /\ r.randNum = Field(Opened(pre), "randNum")
            ELSE r.body = pre /\ r.randNum = Undefined

\* C18: with a key configured outside development, every response whose
\* payload is a structured object goes out as an envelope that decrypts to
\* {responseData: the payload, randNum}, whichever stage produced it; every
\* other response goes out unchanged.
C18_ObjectsAlwaysEnveloped ==
  \A i \in ReqIds :
    LET r == req[i]
    IN  (r.st = "done" /\ r.built /\ ~r.final) =>
          IF EnvelopeActive(config) /\ IsObject(r.res.payload)
            THEN /\ IsEnvelope(r.res.body)
                 /\ Field(Opened(r.res.body), "responseData") = ToJson(r.res.payload)
                 /\ HasMember(Opened(r.res.body), "randNum")
            ELSE r.res.body = ToJson(r.res.payload)

-----------------------------------------------------------------------------
(* Two requests at a time (SpecWrap): a key is configured in production,    *)
(* init() is called once, and the requests that arrive after it, with       *)
(* different tokens and different inbound randNums, interleave at every     *)
(* layer boundary.                                                          *)

WrapConfigs == { Config(TRUE, FALSE, "undefined", ENV_PROD, TRUE, FALSE) }

WrapBodies ==
  { Undefined, PlainBody,
    EnvelopeBody(Inbound(PlainBody, Num("7")), ServerKey),
    EnvelopeBody(Inbound(PlainBody, Num("8")), ServerKey) }

WrapTokens == {Undefined, Str("t1"), Str("t2")}

WrapROut == { Choice("send", Obj("ok"), NoErr), Choice("send", Text("ok"), NoErr) }

InitWrap == InitWith(WrapConfigs)

NextWrap ==
  \/ initCalls = 0 /\ InitApp(TRUE)
  \/ \E i \in ReqIds :
       /\ initCalls = 1
       /\ \/ Arrive(i, {"GET"}, {TEST_ROUTE}, {Undefined}, WrapTokens)
          \/ Arrive(i, {"GET"}, {SWAGGER_UI}, {Undefined}, {Undefined})
          \/ Arrive(i, {"POST"}, {TEST_ROUTE}, WrapBodies, {Undefined})
  \/ \E i \in ReqIds : Step(i, {NoChoice}, WrapROut)

SpecWrap == InitWrap /\ [][NextWrap]_vars

\* The randNum of the request itself: its token header for a GET, the
\* randNum of its inbound envelope otherwise, 0 when it has none.
OwnRandNum(r) ==
  IF r.method = "GET" THEN OrZero(r.token)
  ELSE IF Truthy(r.body) THEN OrZero(r.randNum)
  ELSE Num("0")

\* C16: whatever requests run beside it, a response that went out as an
\* envelope belongs to a request that passed the wrap itself and carries that
\* request's own randNum; a response of a request that did not pass the wrap
\* went out unchanged.
C16_WrapPerRequest ==
  \A i \in ReqIds :
    LET r == req[i]
    IN  r.res.sent =>
          /\ IsEnvelope(r.res.body) =>
               /\ "modifyResponseBody" \in Kinds(r)
               /\ Field(Opened(r.res.body), "randNum") = OwnRandNum(r)
          /\ "modifyResponseBody" \notin Kinds(r) => r.res.body = ToJson(r.res.payload)

\* C16 witness: two requests that were in flight together were both answered
\* with an envelope, each with its own randNum, and the two differ.
C16_Witness ==
  /\ \A i \in ReqIds : req[i].st = "done" /\ IsEnvelope(req[i].res.body)
  /\ \E i \in ReqIds : req[i].overlap
  /\ Field(Opened(req[1].res.body), "randNum") = OwnRandNum(req[1])
  /\ Field(Opened(req[2].res.body), "randNum") = OwnRandNum(req[2])
  /\ OwnRandNum(req[1]) # OwnRandNum(req[2])

-----------------------------------------------------------------------------
(* Properties of repeated lifecycle calls (Spec) *)

\* How many layers of this.app are registrations of stage k.
Registrations(k) == Cardinality({ p \in 1..Len(stack) : stack[p] = k })

\* The stages init() registers on this.app.
InitStages == { InitHead[n] : n \in 1..Len(InitHead) } \cup
              { InitTail[n] : n \in 1..Len(InitTail) }

\* C21: however often init() is called, this.app holds one registration of
\* each stage init() registers (none of a stage a failed init() did not
\* reach): a second init() builds a new Router and registers nothing again.
C21_StagesRegisteredOnce ==
  /\ \A k \in InitStages : Registrations(k) <= 1
  /\ initCalls >= 1 =>
       /\ dynamicRouter # 0
       /\ \A n \in 1..Len(InitHead) : Registrations(InitHead[n]) = 1

-----------------------------------------------------------------------------
(* shutdown() and the requests around it (SpecShut): one init(), then GET   *)
(* requests to every path.  Slot 1 takes the requests that arrive before    *)
(* the first shutdown() (they may still be in flight when it is called),    *)
(* slot 2 those that arrive after it.                                       *)

ShutConfigs ==
  { Config(TRUE, FALSE, "undefined", ENV_PROD, k, FALSE) : k \in BOOLEAN }

ShutROut == { Choice("send", Obj("ok"), NoErr) }

InitShut == InitWith(ShutConfigs)

NextShut ==
  \/ initCalls = 0 /\ InitApp(TRUE)
  \/ Shutdown
  \/ /\ initCalls = 1
     /\ ~shutdownCalled
     /\ Arrive(1, {"GET"}, Paths, {Undefined}, {Undefined})
  \/ /\ initCalls = 1
     /\ shutdownCalled
     /\ Arrive(2, {"GET"}, Paths, {Undefined}, {Undefined})
  \/ \E i \in ReqIds : Step(i, {NoChoice}, ShutROut)

SpecShut == InitShut /\ [][NextShut]_vars

\* A step that is a call of shutdown(): the only call that leaves the
\* requests, the Routers built and the count of init() calls as they are.
ShutdownStep ==
  /\ shutdownCalled'
  /\ phase' = "shutdown"
  /\ UNCHANGED <<req, routers, initCalls>>

\* What a call of shutdown() does: readyState is false after it, the layers
\* of this.app, this.dynamicRouter and the config are as before, and a call
\* in the state a shutdown() left changes nothing.
ShutdownFrame ==
  ShutdownStep =>
    /\ ~readyState'
    /\ UNCHANGED <<appConfig, ctor, config, stack, dynamicRouter, codec>>
    /\ phase = "shutdown" => UNCHANGED vars

\* A request that arrived after shutdown() is answered as the request to the
\* same path that arrived before it, unless it is the readiness probe.
SameAnswers ==
  (/\ req[1].st = "done" /\ req[2].st = "done"
   /\ req[1].method = req[2].method /\ req[1].path = req[2].path
   /\ req[1].path # READY_CHECK)
  => req[1].res = req[2].res

\* C22: shutdown() sets readyState to false and changes nothing else, a
\* second call changes nothing at all, and every request but the readiness
\* probe is answered after shutdown() as it was before.
C22_ShutdownOnlyClearsReadiness == [][ShutdownFrame]_vars /\ []SameAnswers

\* C22 witness: a request to the caller's route was answered 200 before
\* shutdown() and another one after it, while the readiness flag is false.
C22_Witness ==
  /\ shutdownCalled /\ ~readyState
  /\ req[1].st = "done" /\ req[2].st = "done"
  /\ req[1].path = TEST_ROUTE /\ req[2].path = TEST_ROUTE
  /\ req[2].res.status = OK
  /\ req[2].res.body # Undefined

-----------------------------------------------------------------------------
(* Logging of errors (SpecErr) *)

\* An error in canonical form: an ApiError or one of its subclasses.
Canonical(err) == InstanceOf(err, "ApiError")

\* C23: an error raised during a request is logged once, as it was raised
\* (before either translation layer changed it), when it is not in canonical
\* form; an error raised in canonical form is not logged, and nothing is
\* logged when the environment is test.
C23_LoggedOnceBeforeTranslation ==
  \A i \in ReqIds :
    LET r == req[i]
    IN  (r.st = "done" /\ r.built /\ r.raised # NoErr) =>
          r.log = IF config.env = ENV_TEST \/ Canonical(r.raised)
                    THEN <<>>
                    ELSE <<r.raised>>

-----------------------------------------------------------------------------
(* The content of the current Router (Spec) *)

\* C24: when a schema source is configured, the current Router, once there
\* is one, holds the docs endpoint followed by one validation middleware and
\* nothing else, both built from the same schema: the in-memory one when one
\* was given, else the configured document.
C24_DocsThenOneValidator ==
  (dynamicRouter # 0 /\ (config.openapiSpec \/ config.openapiBaseSchema)) =>
    LET rt == routers[dynamicRouter]
    IN  /\ rt.src \in {"mem", "file"}
        /\ rt.src = "file" => config.openapiBaseSchema
        /\ rt.layers = <<RLayer("swaggerUI", rt.src), RLayer("validator", rt.src)>>

-----------------------------------------------------------------------------
(* Failed decryption in the decryption layer (SpecEnv) *)

\* C25: the decryption layer raises no error: a request whose data member
\* could not be decrypted goes on to the next layer and is not answered by
\* the error chain on account of the decryption.
C25_DecryptFailureDropped ==
  \A i \in ReqIds :
    "decoder" \in Kinds(req[i]) => req[i].raisedBy # "decoder"

-----------------------------------------------------------------------------
(* The dispatch layer and this.dynamicRouter (Spec) *)

\* C26: whenever the dispatch layer is registered this.dynamicRouter is set
\* to a Router that was built, and no request is raised the error of line
\* 162 by the dispatch layer.
C26_DispatchHasRouter ==
  /\ InStack("dispatch") => dynamicRouter \in 1..Len(routers)
  /\ \A i \in ReqIds : req[i].raisedBy # "dispatch"

\* C26 witness: an init() failed while it built its Router, a later init()
\* returned, and a request passed the dispatch layer into a Router.
C26_Witness ==
  /\ Registrations("logger") = 2
  /\ Registrations("dispatch") = 1
  /\ \E i \in ReqIds :
       /\ req[i].st = "done"
       /\ "dispatch" \in Kinds(req[i])
       /\ req[i].ver # 0

====
